---- MODULE Spec2Model ----
(***************************************************************************)
(* RaceTrack grid model (game_world/racetrack.py) and the track builder's  *)
(* editor loop (game_world/track_builder.py).                              *)
(*                                                                         *)
(* numpy arrays are sequences of rows (1-based in TLA+); every coordinate  *)
(* that the program handles is the 0-based (row, col) pair of the source.  *)
(* pygame is outside the model: a surface is represented by its size.      *)
(***************************************************************************)
EXTENDS Integers, Sequences, FiniteSets

VARIABLES
    track,            \* the RaceTrack object (NoTrack before construction)
    status,           \* outcome of the construction attempt
    args,             \* shapes of the four layers handed to the constructor
    last,             \* the most recent call on the track and what it returned
    before,           \* the track as it was before the current run of toggles
    selected_color,   \* main(): locals of the editor loop
    selected_kind,
    pressed,
    shift_held,
    cursor_size,
    handled_points,
    mx,
    my,
    pc,               \* position of the editor loop
    file,             \* contents of SAVE_FILE_NAME (<<>> while not written)
    edit_count,       \* per cell: edits since the last MOUSEBUTTONUP
    steps             \* number of loop steps taken (bounded by MaxSteps)

gridVars == <<track, status, args, last, before>>
editorVars == <<selected_color, selected_kind, pressed, shift_held, cursor_size,
                handled_points, mx, my, pc, file, edit_count, steps>>
vars == <<track, status, args, last, before, selected_color, selected_kind,
          pressed, shift_held, cursor_size, handled_points, mx, my, pc, file,
          edit_count, steps>>

----------------------------------------------------------------------------
(* Bounds of the model *)

MaxWall == 2       \* constructor inputs: walls values 0..MaxWall
MaxColor == 1      \* colours 0..MaxColor: layer entries, toggle/query arguments, icons clicked
Rows == 2          \* editor: rows of the grid (GRID_SIZE[0])
Cols == 3          \* editor: columns of the grid (GRID_SIZE[1])
MaxCursor == 2     \* editor: largest brush size
MaxSteps == 7      \* editor: events and loop iterations explored

----------------------------------------------------------------------------
(* numpy helpers *)

\* Optional arguments: <<>> is None, <<v>> is the value v.
NoneArg == <<>>

Some(v) == <<v>>

\* ndarray.shape of a 2-D array
Shape(m) == <<Len(m), IF Len(m) = 0 THEN 0 ELSE Len(m[1])>>

\* m[r, c] with 0-based indices
At(m, r, c) == m[r + 1][c + 1]

\* product(range(rows), range(cols))
Cells(shape) == (0 .. shape[1] - 1) \X (0 .. shape[2] - 1)

\* np.zeros(shape) / np.ones(shape)
Full(shape, v) == [i \in 1 .. shape[1] |-> [j \in 1 .. shape[2] |-> v]]

\* Python's & on non-negative integers
RECURSIVE BitAnd(_, _)
BitAnd(a, b) ==
    IF a = 0 \/ b = 0 THEN 0
    ELSE (a % 2) * (b % 2) + 2 * BitAnd(a \div 2, b \div 2)

\* Python's | on non-negative integers
RECURSIVE BitOr(_, _)
BitOr(a, b) ==
    IF a = 0 THEN b
    ELSE IF b = 0 THEN a
    ELSE (IF a % 2 = 1 \/ b % 2 = 1 THEN 1 ELSE 0) + 2 * BitOr(a \div 2, b \div 2)

\* (m == v).astype(int)
EqMask(m, v) ==
    [i \in 1 .. Len(m) |-> [j \in 1 .. Len(m[i]) |-> IF m[i][j] = v THEN 1 ELSE 0]]

\* numpy broadcasting of two 2-D shapes: whether it is defined
Broadcasts(s1, s2) == \A d \in 1 .. 2 : s1[d] = s2[d] \/ s1[d] = 1 \/ s2[d] = 1

\* numpy broadcasting of two 2-D shapes: the shape of the result
BroadcastShape(s1, s2) == [d \in 1 .. 2 |-> IF s1[d] = 1 THEN s2[d] ELSE s1[d]]

\* the array m stretched to shape: an axis of length 1 is repeated
Stretch(m, shape) ==
    [i \in 1 .. shape[1] |->
        [j \in 1 .. shape[2] |->
            m[IF Len(m) = 1 THEN 1 ELSE i][IF Len(m[1]) = 1 THEN 1 ELSE j]]]

\* elementwise a & b of two arrays that broadcast
AndMask(a, b) ==
    LET shape == BroadcastShape(Shape(a), Shape(b))
        x == Stretch(a, shape)
        y == Stretch(b, shape)
    IN  [i \in 1 .. shape[1] |-> [j \in 1 .. shape[2] |-> BitAnd(x[i][j], y[i][j])]]

\* elementwise a | b of two arrays of the same shape (walls and active)
OrMask(a, b) ==
    [i \in 1 .. Len(a) |-> [j \in 1 .. Len(a[i]) |-> BitOr(a[i][j], b[i][j])]]

\* np.where(m): the coordinates of the non-zero entries, in row-major order
np_where(m) ==
    LET cols == Shape(m)[2]
        nz == {k \in 0 .. Len(m) * cols - 1 : At(m, k \div cols, k % cols) # 0}
        nth(i) == CHOOSE k \in nz : Cardinality({j \in nz : j < k}) = i - 1
    IN  [i \in 1 .. Cardinality(nz) |-> <<nth(i) \div cols, nth(i) % cols>>]

\* set(zip(rows, cols))
PointSet(idx) == {idx[i] : i \in DOMAIN idx}

----------------------------------------------------------------------------
(* class RaceTrack *)

\* keys of RaceTrack.color_scheme
color_scheme == 0 .. 7

NoTrack ==
    [walls |-> <<>>, active |-> <<>>, buttons |-> <<>>, colors |-> <<>>,
     shape |-> <<0, 0>>, spawn |-> <<0, 0>>, target |-> <<0, 0>>,
     surface |-> <<0, 0>>, screen_size |-> <<0, 0>>]

InBounds(m, r, c) == r < Len(m) /\ c < Len(m[r + 1])

\* RaceTrack.render: the exception that the array reads of its loop raise
\* ("" when there is none), which is that of the first cell, in row-major
\* order, where a read fails.  Drawing itself is pygame's.
RenderError(shape, walls, active, buttons, colors) ==
    LET row(k) == k \div shape[2]
        col(k) == k % shape[2]
        outside(k) == \/ ~InBounds(active, row(k), col(k))
                      \/ ~InBounds(walls, row(k), col(k))
                      \/ ~InBounds(colors, row(k), col(k))
                      \/ ~InBounds(buttons, row(k), col(k))
        fails(k) == outside(k) \/ At(colors, row(k), col(k)) \notin color_scheme
        bad == {k \in 0 .. shape[1] * shape[2] - 1 : fails(k)}
        first == CHOOSE k \in bad : \A j \in bad : k <= j
    IN  IF bad = {} THEN ""
        ELSE IF outside(first) THEN "IndexError"
        ELSE "KeyError"

\* RaceTrack.render: the surface it returns, represented by its size
render(t, width, height) == <<width, height>>

\* RaceTrack.__init__: [status, track]; track is NoTrack when it raises
RaceTrack(walls, active, buttons, colors, target, spawn, screen_size) ==
    IF ~(Shape(walls) = Shape(active) /\ Shape(active) = Shape(buttons))
    THEN [status |-> "ValueError", track |-> NoTrack]
    ELSE LET err == RenderError(Shape(walls), walls, active, buttons, colors)
             self == [walls |-> walls, active |-> active, buttons |-> buttons,
                      colors |-> colors, shape |-> Shape(walls), spawn |-> spawn,
                      target |-> target, surface |-> <<0, 0>>,
                      screen_size |-> screen_size]
         IN  IF err # "" THEN [status |-> err, track |-> NoTrack]
             ELSE [status |-> "ok",
                   track |-> [self EXCEPT
                                !.surface = render(self, screen_size[1], screen_size[2])]]

\* Outcome of a call that may raise: raised is "" or the exception's name.
Returns(v) == [raised |-> "", value |-> v]

Raises(e, v) == [raised |-> e, value |-> v]

\* RaceTrack.find_wall_locations_np: np.where(walls & color_mask & active_mask).
\* The masks are broadcast against walls; shapes that do not broadcast raise.
find_wall_locations_np(t, color, active) ==
    LET color_mask == IF color # NoneArg THEN EqMask(t.colors, color[1])
                      ELSE Full(t.shape, 1)
        active_mask == IF active # NoneArg
                       THEN EqMask(t.active, IF active[1] THEN 1 ELSE 0)
                       ELSE Full(t.shape, 1)
    IN  IF ~Broadcasts(Shape(t.walls), Shape(color_mask))
        THEN Raises("ValueError", <<>>)
        ELSE IF ~Broadcasts(BroadcastShape(Shape(t.walls), Shape(color_mask)),
                            Shape(active_mask))
        THEN Raises("ValueError", <<>>)
        ELSE Returns(np_where(AndMask(AndMask(t.walls, color_mask), active_mask)))

\* RaceTrack.find_wall_locations
find_wall_locations(t, color, active) ==
    LET found == find_wall_locations_np(t, color, active)
    IN  IF found.raised # "" THEN Raises(found.raised, {})
        ELSE Returns(PointSet(found.value))

\* RaceTrack.find_buttons
find_buttons(t, color) ==
    LET color_mask == IF color # NoneArg THEN EqMask(t.colors, color[1])
                      ELSE Full(t.shape, 1)
    IN  IF ~Broadcasts(Shape(t.buttons), Shape(color_mask))
        THEN Raises("ValueError", {})
        ELSE Returns(PointSet(np_where(AndMask(t.buttons, color_mask))))

\* 1 - self.active
OneMinus(m) == [i \in 1 .. Len(m) |-> [j \in 1 .. Len(m[i]) |-> 1 - m[i][j]]]

\* variant: the two masks combined with & instead of |
find_traversable_and(t) ==
    PointSet(np_where(AndMask(EqMask(t.walls, 0), OneMinus(t.active))))

\* RaceTrack.find_traversable_cells
find_traversable_cells(t) ==
    PointSet(np_where(OrMask(EqMask(t.walls, 0), OneMinus(t.active))))

\* self.active[idx] = 1 - self.active[idx]
FlipAt(active, idx) ==
    [i \in 1 .. Len(active) |->
        [j \in 1 .. Len(active[i]) |->
            IF <<i - 1, j - 1>> \in PointSet(idx) THEN 1 - active[i][j]
            ELSE active[i][j]]]

\* variant: the selected cells set to 0 instead of flipped
toggle_deactivate(t, color) ==
    LET found == find_wall_locations_np(t, Some(color), NoneArg)
        active == [i \in 1 .. Len(t.active) |->
                     [j \in 1 .. Len(t.active[i]) |->
                        IF <<i - 1, j - 1>> \in PointSet(found.value) THEN 0
                        ELSE t.active[i][j]]]
        self == [t EXCEPT !.active = active]
    IN  IF found.raised # "" THEN [raised |-> found.raised, track |-> t]
        ELSE IF \E p \in PointSet(found.value) : ~InBounds(t.active, p[1], p[2])
        THEN [raised |-> "IndexError", track |-> t]
        ELSE [raised |-> "",
              track |-> [self EXCEPT !.surface = render(self, t.surface[1], t.surface[2])]]

\* RaceTrack.toggle: [raised, track].  The right-hand side is evaluated first:
\* when the lookup raises, or self.active[...] is read at an index outside
\* the array, nothing has been written.
toggle(t, color) ==
    LET found == find_wall_locations_np(t, Some(color), NoneArg)
        self == [t EXCEPT !.active = FlipAt(t.active, found.value)]
    IN  IF found.raised # "" THEN [raised |-> found.raised, track |-> t]
        ELSE IF \E p \in PointSet(found.value) : ~InBounds(t.active, p[1], p[2])
        THEN [raised |-> "IndexError", track |-> t]
        ELSE [raised |-> "",
              track |-> [self EXCEPT !.surface = render(self, t.surface[1], t.surface[2])]]

\* 2^n for n > 0, and 1 otherwise
RECURSIVE Pow2(_)
Pow2(n) == IF n <= 0 THEN 1 ELSE 2 * Pow2(n - 1)

\* (a * 2^s) % c
RECURSIVE ShiftMod(_, _, _)
ShiftMod(a, s, c) == IF s <= 0 THEN a % c ELSE ShiftMod((2 * a) % c, s - 1, c)

\* binary exponent of the positive quotient p / q: 2^e <= p / q < 2^(e + 1)
RECURSIVE Exponent(_, _)
Exponent(p, q) ==
    IF p < q THEN Exponent(2 * p, q) - 1
    ELSE IF 2 * q <= p THEN Exponent(p, 2 * q) + 1
    ELSE 0

\* for n >= 1, the k with 2^k < n <= 2^(k + 1)
RECURSIVE BinadeBelow(_)
BinadeBelow(n) == IF n <= 1 THEN -1 ELSE BinadeBelow((n + 1) \div 2) + 1

\* int(x / (size / count)) in Python's floats (IEEE-754 doubles, 53 bits,
\* round to nearest), for integers x, size > 0, count > 0 well below 2^26.
\* int() truncates toward zero.  The quotient differs from the exact
\* x * count / size only when that is a whole number n and size / count was
\* rounded up by d / count units of its last bit: x / w then lies below n by
\* n * d / (size * 2^s + d), and rounds to the double before n when that is
\* more than half the spacing of the doubles below n.
FloatQuotient(x, size, count) ==
    LET mag == IF x < 0 THEN -x ELSE x
        n == (mag * count) \div size
        e == Exponent(size, count)
        r == ShiftMod(size, 52 - e, count)
        d == count - r
        k == BinadeBelow(n)
        falls == /\ (mag * count) % size = 0
                 /\ n > 0
                 /\ 2 * r > count
                 /\ n * d * Pow2(e + 1 - k) > size * Pow2(k - e - 1)
        q == IF falls THEN n - 1 ELSE n
    IN  IF x < 0 THEN -q ELSE q

\* RaceTrack.get_grid_coord: int(y / h), int(x / w) with w = width / cols and
\* h = height / rows
get_grid_coord(t, x, y) ==
    <<FloatQuotient(y, t.surface[2], t.shape[1]),
      FloatQuotient(x, t.surface[1], t.shape[2])>>

\* RaceTrack.save: the tuple that is pickled
save(t) ==
    <<t.walls, t.active, t.buttons, t.colors, t.target, t.spawn, t.screen_size>>

\* variant: target and spawn passed in the other order
load_track_swapped(data) ==
    LET made == RaceTrack(data[1], data[2], data[3], data[4], data[6], data[5], data[7])
        t == made.track
    IN  IF made.status # "ok" THEN made
        ELSE [made EXCEPT !.track.surface = render(t, t.screen_size[1], t.screen_size[2])]

\* load_track: RaceTrack(*data), then a render at the stored screen size
load_track(data) ==
    LET made == RaceTrack(data[1], data[2], data[3], data[4], data[5], data[6], data[7])
        t == made.track
    IN  IF made.status # "ok" THEN made
        ELSE [made EXCEPT !.track.surface = render(t, t.screen_size[1], t.screen_size[2])]

\* blank_track
blank_track(grid_size, screen_size, n_colors) ==
    RaceTrack(Full(grid_size, 0), Full(grid_size, 1), Full(grid_size, 0),
              Full(grid_size, 0), <<grid_size[1] - 1, grid_size[2] - 1>>, <<0, 0>>,
              screen_size).track

----------------------------------------------------------------------------
(* Calls on a RaceTrack built from arbitrary layers *)

WIDTH == 600

\* shapes of the walls, active and buttons layers handed to the constructor
Shapes == {<<1, 1>>, <<1, 2>>, <<2, 1>>}

\* shapes of the colors layer handed to the constructor: those above, and one
\* that covers a 1 x 2 grid without broadcasting against it
ColorShapes == Shapes \cup {<<1, 3>>}

\* 2-D arrays of the given shapes with entries from vals
LayerSet(shapes, vals) == UNION {[1 .. s[1] -> [1 .. s[2] -> vals]] : s \in shapes}

Colors == 0 .. MaxColor

OptColors == {NoneArg} \cup {Some(c) : c \in Colors}

OptFlags == {NoneArg, Some(TRUE), Some(FALSE)}

NoCall ==
    [op |-> "none", color |-> NoneArg, active |-> NoneArg, n |-> 0, out |-> {},
     raised |-> ""]

Call(op, color, active, n, out, raised) ==
    [op |-> op, color |-> color, active |-> active, n |-> n, out |-> out,
     raised |-> raised]

EditorIdle ==
    /\ selected_color = 1
    /\ selected_kind = "wall"
    /\ pressed = FALSE
    /\ shift_held = FALSE
    /\ cursor_size = 1
    /\ handled_points = {}
    /\ mx = 0
    /\ my = 0
    /\ pc = "off"
    /\ file = <<>>
    /\ edit_count = <<>>
    /\ steps = 0

Init ==
    /\ track = NoTrack
    /\ status = "none"
    /\ args = <<>>
    /\ last = NoCall
    /\ before = <<>>
    /\ EditorIdle

\* RaceTrack(walls, active, buttons, colors, target, spawn, screen_size)
Construct ==
    /\ status = "none"
    /\ \E walls \in LayerSet(Shapes, 0 .. MaxWall), active \in LayerSet(Shapes, 0 .. 1),
          buttons \in LayerSet(Shapes, 0 .. 1), colors \in LayerSet(ColorShapes, Colors) :
            LET shape == Shape(walls)
                made == RaceTrack(walls, active, buttons, colors,
                                  <<shape[1] - 1, shape[2] - 1>>, <<0, 0>>,
                                  <<WIDTH, WIDTH>>)
            IN  /\ track' = made.track
                /\ status' = made.status
                /\ args' = <<Shape(walls), Shape(active), Shape(buttons), Shape(colors)>>
    /\ last' = NoCall
    /\ before' = <<>>
    /\ UNCHANGED editorVars

\* track.toggle(color)
Toggle ==
    /\ status = "ok"
    /\ \E color \in Colors :
        \E done \in {toggle(track, color)} :
            /\ track' = done.track
            /\ LET again == last.op = "toggle" /\ last.color = Some(color) /\ last.n = 1
               IN  /\ last' = Call("toggle", Some(color), NoneArg,
                                   IF again THEN 2 ELSE 1, {}, done.raised)
                   /\ before' = IF again THEN <<before[1], track>> ELSE <<track>>
    /\ UNCHANGED <<status, args>>
    /\ UNCHANGED editorVars

\* track.find_wall_locations(color, active)
FindWallLocations ==
    /\ status = "ok"
    /\ \E color \in OptColors, active \in OptFlags :
        \E found \in {find_wall_locations(track, color, active)} :
            last' = Call("find_wall_locations", color, active, 0,
                         found.value, found.raised)
    /\ before' = <<>>
    /\ UNCHANGED <<track, status, args>>
    /\ UNCHANGED editorVars

\* track.find_buttons(color)
FindButtons ==
    /\ status = "ok"
    /\ \E color \in OptColors :
        \E found \in {find_buttons(track, color)} :
            last' = Call("find_buttons", color, NoneArg, 0, found.value, found.raised)
    /\ before' = <<>>
    /\ UNCHANGED <<track, status, args>>
    /\ UNCHANGED editorVars

\* track.find_traversable_cells()
FindTraversableCells ==
    /\ status = "ok"
    /\ last' = Call("find_traversable_cells", NoneArg, NoneArg, 0,
                    find_traversable_cells(track), "")
    /\ before' = <<>>
    /\ UNCHANGED <<track, status, args>>
    /\ UNCHANGED editorVars

Next ==
    \/ Construct
    \/ Toggle
    \/ FindWallLocations
    \/ FindButtons
    \/ FindTraversableCells

Spec == Init /\ [][Next]_vars

----------------------------------------------------------------------------
(* track_builder.py: the editor *)

\* Python's round(n / d): to the nearest integer, halves to the even one
RoundDiv(n, d) ==
    LET q == n \div d
        rem == n % d
    IN  IF 2 * rem < d THEN q
        ELSE IF 2 * rem > d THEN q + 1
        ELSE IF q % 2 = 0 THEN q ELSE q + 1

GRID_SIZE == <<Rows, Cols>>

\* main(): screen_size
screen_size == <<WIDTH, RoundDiv(WIDTH * GRID_SIZE[1], GRID_SIZE[2])>>

\* class Button: position and size (its image is pygame's)
Button(x, y, width, height) == [x |-> x, y |-> y, width |-> width, height |-> height]

\* Button.point_inside
point_inside(b, x, y) ==
    /\ b.x < x /\ x < b.x + b.width
    /\ b.y < y /\ y < b.y + b.height

\* main(): color_buttons
color_buttons ==
    [i \in color_scheme |-> Button(screen_size[1] + 30, 20 + 50 * i, 30, 30)]

Kinds == <<"wall", "button", "target", "spawn">>

\* main(): type_buttons, in insertion order
type_buttons ==
    [k \in 1 .. 4 |-> Button(screen_size[1] + 100, 20 + 50 * (k - 1), 30, 30)]

SetMax(S) == CHOOSE x \in S : \A y \in S : y <= x

\* MOUSEBUTTONDOWN: the loop over color_buttons; the last hit wins
ClickedColor(current, x, y) ==
    LET hits == {i \in color_scheme : point_inside(color_buttons[i], x, y)}
    IN  IF hits = {} THEN current ELSE SetMax(hits)

\* MOUSEBUTTONDOWN: the loop over type_buttons; the last hit wins
ClickedKind(current, x, y) ==
    LET hits == {k \in 1 .. 4 : point_inside(type_buttons[k], x, y)}
    IN  IF hits = {} THEN current ELSE Kinds[SetMax(hits)]

\* track.surface.get_rect().collidepoint(mx, my)
collidepoint(t, x, y) ==
    /\ 0 <= x /\ x < t.surface[1]
    /\ 0 <= y /\ y < t.surface[2]

SetCell(m, r, c, v) == [m EXCEPT ![r + 1][c + 1] = v]

\* variant: the button branch without track.walls[r, c] = 0
EditCellKeepsWall(t, color, kind, shift, r, c) ==
    CASE kind = "wall" ->
            [t EXCEPT !.walls = SetCell(@, r, c, IF color = 0 THEN 0 ELSE 1),
                      !.active = IF color = 0 THEN @
                                 ELSE SetCell(@, r, c, 1 - (IF shift THEN 1 ELSE 0)),
                      !.colors = SetCell(@, r, c, color),
                      !.buttons = SetCell(@, r, c, 0)]
      [] kind = "button" ->
            [t EXCEPT !.buttons = SetCell(@, r, c, IF color = 0 THEN 0 ELSE 1),
                      !.colors = SetCell(@, r, c, color),
                      !.active = SetCell(@, r, c, 1)]
      [] kind = "target" ->
            [t EXCEPT !.target = <<r, c>>,
                      !.walls = SetCell(@, r, c, 0),
                      !.buttons = SetCell(@, r, c, 0),
                      !.colors = SetCell(@, r, c, 0),
                      !.active = SetCell(@, r, c, 1)]
      [] kind = "spawn" ->
            [t EXCEPT !.spawn = <<r, c>>,
                      !.walls = SetCell(@, r, c, 0),
                      !.buttons = SetCell(@, r, c, 0),
                      !.colors = SetCell(@, r, c, 0),
                      !.active = SetCell(@, r, c, 1)]
      [] OTHER -> t

\* click_track: the match statement, applied to the cell (r, c)
EditCell(t, color, kind, shift, r, c) ==
    CASE kind = "wall" ->
            [t EXCEPT !.walls = SetCell(@, r, c, IF color = 0 THEN 0 ELSE 1),
                      !.active = IF color = 0 THEN @
                                 ELSE SetCell(@, r, c, 1 - (IF shift THEN 1 ELSE 0)),
                      !.colors = SetCell(@, r, c, color),
                      !.buttons = SetCell(@, r, c, 0)]
      [] kind = "button" ->
            [t EXCEPT !.buttons = SetCell(@, r, c, IF color = 0 THEN 0 ELSE 1),
                      !.walls = SetCell(@, r, c, 0),
                      !.colors = SetCell(@, r, c, color),
                      !.active = SetCell(@, r, c, 1)]
      [] kind = "target" ->
            [t EXCEPT !.target = <<r, c>>,
                      !.walls = SetCell(@, r, c, 0),
                      !.buttons = SetCell(@, r, c, 0),
                      !.colors = SetCell(@, r, c, 0),
                      !.active = SetCell(@, r, c, 1)]
      [] kind = "spawn" ->
            [t EXCEPT !.spawn = <<r, c>>,
                      !.walls = SetCell(@, r, c, 0),
                      !.buttons = SetCell(@, r, c, 0),
                      !.colors = SetCell(@, r, c, 0),
                      !.active = SetCell(@, r, c, 1)]
      [] OTHER -> t

\* click_track: the two nested range() loops, as the cells they visit in order
BrushCells(row, col, size) ==
    LET n == 2 * size - 1
    IN  [k \in 1 .. n * n |->
            <<row - size + 1 + ((k - 1) \div n), col - size + 1 + ((k - 1) % n)>>]

\* variant: the handled_points test dropped
SkipsOutOfGridOnly(shape, r, c, handled) ==
    \/ r \notin 0 .. shape[1] - 1
    \/ c \notin 0 .. shape[2] - 1

\* click_track: the condition of the continue
Skips(shape, r, c, handled) ==
    \/ r \notin 0 .. shape[1] - 1
    \/ c \notin 0 .. shape[2] - 1
    \/ <<r, c>> \in handled

\* click_track: the loop body from the k-th visited cell on.  edits lists the
\* cells edited, in order.
RECURSIVE PaintFrom(_, _, _, _, _, _, _)
PaintFrom(acc, cells, k, color, kind, shift, edits) ==
    IF k > Len(cells)
    THEN [track |-> acc.track, handled_points |-> acc.handled_points, edits |-> edits]
    ELSE LET r == cells[k][1]
             c == cells[k][2]
         IN  IF Skips(acc.track.shape, r, c, acc.handled_points)
             THEN PaintFrom(acc, cells, k + 1, color, kind, shift, edits)
             ELSE PaintFrom(
                     [track |-> EditCell(acc.track, color, kind,
                                         shift, r, c),
                      handled_points |-> acc.handled_points \cup {<<r, c>>}],
                     cells, k + 1, color, kind, shift,
                     Append(edits, <<r, c>>))

\* click_track
click_track(t, color, kind, is_pressed, x, y, size, handled, shift) ==
    IF ~is_pressed \/ ~collidepoint(t, x, y)
    THEN [track |-> t, handled_points |-> handled, edits |-> <<>>]
    ELSE LET rc == get_grid_coord(t, x, y)
             done == PaintFrom([track |-> t, handled_points |-> handled],
                               BrushCells(rc[1], rc[2], size), 1,
                               color, kind, shift, <<>>)
         IN  [done EXCEPT !.track.surface =
                             render(done.track, t.surface[1], t.surface[2])]

\* the pixel at the centre of the cell (r, c) of the canvas
CellCentre(r, c) ==
    <<((2 * c + 1) * screen_size[1]) \div (2 * GRID_SIZE[2]),
      ((2 * r + 1) * screen_size[2]) \div (2 * GRID_SIZE[1])>>

\* pointer positions tried: the centres of the first and of the last cell (a
\* blank track has its spawn on the first and its target on the last), of the
\* colour icons 0..MaxColor and of the four kind icons
MousePoints ==
    {CellCentre(0, 0), CellCentre(GRID_SIZE[1] - 1, GRID_SIZE[2] - 1)}
    \cup {<<color_buttons[i].x + 15, color_buttons[i].y + 15>> : i \in Colors}
    \cup {<<type_buttons[k].x + 15, type_buttons[k].y + 15>> : k \in 1 .. 4}

\* main() up to the first pygame.mouse.get_pos()
EditorInit ==
    /\ track = blank_track(GRID_SIZE, screen_size, 7)
    /\ status = "ok"
    /\ args = <<GRID_SIZE, GRID_SIZE, GRID_SIZE, GRID_SIZE>>
    /\ last = NoCall
    /\ before = <<>>
    /\ selected_color = 1
    /\ selected_kind = "wall"
    /\ pressed = FALSE
    /\ shift_held = FALSE
    /\ cursor_size = 1
    /\ handled_points = {}
    /\ \E p \in MousePoints : mx = p[1] /\ my = p[2]
    /\ pc = "events"
    /\ file = <<>>
    /\ edit_count = [cell \in Cells(GRID_SIZE) |-> 0]
    /\ steps = 0

Step ==
    /\ pc = "events"
    /\ steps < MaxSteps
    /\ steps' = steps + 1

\* event.type == QUIT
Quit ==
    /\ Step
    /\ pc' = "exit"
    /\ UNCHANGED gridVars
    /\ UNCHANGED <<selected_color, selected_kind, pressed, shift_held, cursor_size,
                   handled_points, mx, my, file, edit_count>>

\* event.type == MOUSEBUTTONDOWN
MouseButtonDown ==
    /\ Step
    /\ pressed' = TRUE
    /\ selected_color' = ClickedColor(selected_color, mx, my)
    /\ selected_kind' = ClickedKind(selected_kind, mx, my)
    /\ UNCHANGED gridVars
    /\ UNCHANGED <<shift_held, cursor_size, handled_points, mx, my, pc, file, edit_count>>

\* event.type == MOUSEBUTTONUP
MouseButtonUp ==
    /\ Step
    /\ pressed' = FALSE
    /\ handled_points' = {}
    /\ edit_count' = [cell \in DOMAIN edit_count |-> 0]
    /\ UNCHANGED gridVars
    /\ UNCHANGED <<selected_color, selected_kind, shift_held, cursor_size, mx, my, pc, file>>

\* KEYDOWN, K_UP.  The brush size of the model stops at MaxCursor.
KeyUpArrow ==
    /\ Step
    /\ cursor_size < MaxCursor
    /\ cursor_size' = cursor_size + 1
    /\ UNCHANGED gridVars
    /\ UNCHANGED <<selected_color, selected_kind, pressed, shift_held, handled_points,
                   mx, my, pc, file, edit_count>>

\* KEYDOWN, K_DOWN
KeyDownArrow ==
    /\ Step
    /\ cursor_size' = (IF cursor_size - 1 > 1 THEN cursor_size - 1 ELSE 1)
    /\ UNCHANGED gridVars
    /\ UNCHANGED <<selected_color, selected_kind, pressed, shift_held, handled_points,
                   mx, my, pc, file, edit_count>>

\* KEYDOWN, K_RETURN
KeyReturn ==
    /\ Step
    /\ file' = save(track)
    /\ UNCHANGED gridVars
    /\ UNCHANGED <<selected_color, selected_kind, pressed, shift_held, cursor_size,
                   handled_points, mx, my, pc, edit_count>>

\* KEYDOWN, K_a
KeyADown ==
    /\ Step
    /\ shift_held' = TRUE
    /\ UNCHANGED gridVars
    /\ UNCHANGED <<selected_color, selected_kind, pressed, cursor_size, handled_points,
                   mx, my, pc, file, edit_count>>

\* KEYUP, K_a
KeyAUp ==
    /\ Step
    /\ shift_held' = FALSE
    /\ UNCHANGED gridVars
    /\ UNCHANGED <<selected_color, selected_kind, pressed, cursor_size, handled_points,
                   mx, my, pc, file, edit_count>>

\* number of occurrences of x in seq
Count(seq, x) == Cardinality({i \in DOMAIN seq : seq[i] = x})

\* The rest of the loop body once the events are handled: click_track, the
\* blits, and the get_pos() that opens the next iteration.
ClickTrack ==
    /\ Step
    /\ \E done \in {click_track(track, selected_color, selected_kind, pressed, mx, my,
                                cursor_size, handled_points, shift_held)} :
           /\ track' = done.track
           /\ handled_points' = done.handled_points
           /\ edit_count' = [cell \in DOMAIN edit_count |->
                                edit_count[cell] + Count(done.edits, cell)]
    /\ \E p \in MousePoints : mx' = p[1] /\ my' = p[2]
    /\ UNCHANGED <<status, args, last, before>>
    /\ UNCHANGED <<selected_color, selected_kind, pressed, shift_held, cursor_size,
                   pc, file>>

\* track.toggle(color) on the track being edited, between two events
EditorToggle ==
    /\ Step
    /\ \E color \in Colors : track' = toggle(track, color).track
    /\ UNCHANGED <<status, args, last, before>>
    /\ UNCHANGED <<selected_color, selected_kind, pressed, shift_held, cursor_size,
                   handled_points, mx, my, pc, file, edit_count>>

EditorNext ==
    \/ Quit
    \/ MouseButtonDown
    \/ MouseButtonUp
    \/ KeyUpArrow
    \/ KeyDownArrow
    \/ KeyReturn
    \/ KeyADown
    \/ KeyAUp
    \/ ClickTrack
    \/ EditorToggle

EditorSpec == EditorInit /\ [][EditorNext]_vars

----------------------------------------------------------------------------
(* Properties of the calls on a RaceTrack (checked under Spec) *)

\* the track as it was when the most recent toggle was called
PreToggle == before[Len(before)]

Inverted(old, new) == (old = 1 /\ new = 0) \/ (old = 0 /\ new = 1)

\* what the contract of find_wall_locations(color, active) describes
WallsContract(t, color, active) ==
    {cell \in Cells(t.shape) :
        /\ At(t.walls, cell[1], cell[2]) # 0
        /\ color = NoneArg \/ At(t.colors, cell[1], cell[2]) = color[1]
        /\ active = NoneArg
              \/ At(t.active, cell[1], cell[2]) = (IF active[1] THEN 1 ELSE 0)}

\* C1: after toggle(c), every cell that was a wall of colour c before the call
\* (walls != 0 and colors == c, whatever its active flag) has its active flag
\* inverted, and the active flag of every other cell is unchanged.
C1_ToggleFlipsExactlyMatching ==
    last.op = "toggle" =>
        LET found == WallsContract(PreToggle, last.color, NoneArg)
        IN  \A cell \in Cells(track.shape) :
                LET old == At(PreToggle.active, cell[1], cell[2])
                    new == At(track.active, cell[1], cell[2])
                IN  IF cell \in found THEN Inverted(old, new) ELSE new = old

\* C2: find_wall_locations(color, active) returns exactly the cells where
\* walls != 0 and (color is None or colors == color) and (active is None or
\* active == the requested flag), for any non-negative wall-colour indices.
C2_FindWallsIsContract ==
    last.op = "find_wall_locations" =>
        /\ last.raised = ""
        /\ last.out = WallsContract(track, last.color, last.active)

AllSameShape == \A i \in 1 .. 4 : args[i] = args[1]

\* C3: a construction whose four layers are not all of the same shape fails
\* with an error and yields no track.
C3_MismatchFails ==
    (status # "none" /\ ~AllSameShape) => (status # "ok" /\ track = NoTrack)

\* C4: find_traversable_cells returns exactly the cells where walls == 0 or
\* active is false, that is, every cell but those with walls != 0 and active.
C4_TraversableExact ==
    last.op = "find_traversable_cells" =>
        /\ last.out = {cell \in Cells(track.shape) :
                          \/ At(track.walls, cell[1], cell[2]) = 0
                          \/ At(track.active, cell[1], cell[2]) = 0}
        /\ Cells(track.shape) \ last.out =
              {cell \in Cells(track.shape) :
                  /\ At(track.walls, cell[1], cell[2]) # 0
                  /\ At(track.active, cell[1], cell[2]) = 1}

\* a query that returned a deactivated wall and left out an active one
C4_Witness ==
    /\ last.op = "find_traversable_cells"
    /\ \E cell \in last.out :
          /\ At(track.walls, cell[1], cell[2]) # 0
          /\ At(track.active, cell[1], cell[2]) = 0
    /\ \E cell \in Cells(track.shape) \ last.out :
          At(track.walls, cell[1], cell[2]) # 0

\* C5: every cell returned by find_buttons() is also returned by
\* find_traversable_cells(), whatever the layers hold.
C5_ButtonsTraversable ==
    (last.op = "find_buttons" /\ last.color = NoneArg) =>
        /\ last.raised = ""
        /\ last.out \subseteq find_traversable_cells(track)

\* C10: toggle(c) twice in a row restores the whole track, and a toggle never
\* changes walls, buttons, colors, spawn or target (also when it raises).
C10_ToggleTwiceRestores ==
    /\ (last.op = "toggle" /\ last.n = 2) => track = before[1]
    /\ last.op = "toggle" =>
          /\ track.walls = PreToggle.walls
          /\ track.buttons = PreToggle.buttons
          /\ track.colors = PreToggle.colors
          /\ track.spawn = PreToggle.spawn
          /\ track.target = PreToggle.target

\* two toggles of one colour in a row, the first of which changed the track
C10_Witness ==
    /\ last.op = "toggle"
    /\ last.n = 2
    /\ last.raised = ""
    /\ before[2].active # before[1].active
    /\ track = before[1]

----------------------------------------------------------------------------
(* Properties of the editor (checked under EditorSpec) *)

\* C6: from a blank track, after any sequence of click_track edits and
\* toggles, no cell has both walls != 0 and buttons set.
C6_WallOrButton ==
    \A cell \in Cells(track.shape) :
        ~(At(track.walls, cell[1], cell[2]) # 0 /\ At(track.buttons, cell[1], cell[2]) # 0)

\* a button placed on a cell that held a wall when the track was last saved
C6_Witness ==
    /\ file # <<>>
    /\ \E cell \in Cells(track.shape) :
          /\ At(file[1], cell[1], cell[2]) # 0
          /\ At(track.buttons, cell[1], cell[2]) = 1
          /\ At(track.walls, cell[1], cell[2]) = 0

\* C7: from a blank track, after every click_track edit, spawn and target are
\* coordinates inside shape and neither of their cells has walls != 0.
C7_SpawnTargetOffWalls ==
    /\ track.spawn \in Cells(track.shape)
    /\ track.target \in Cells(track.shape)
    /\ At(track.walls, track.spawn[1], track.spawn[2]) = 0
    /\ At(track.walls, track.target[1], track.target[2]) = 0

\* C8: load_track applied to what save wrote yields a track equal to the
\* saved one in walls, active, buttons, colors, target, spawn and screen size.
C8_SaveLoadRoundTrip ==
    \A made \in {load_track(save(track))} :
        /\ made.status = "ok"
        /\ made.track.walls = track.walls
        /\ made.track.active = track.active
        /\ made.track.buttons = track.buttons
        /\ made.track.colors = track.colors
        /\ made.track.target = track.target
        /\ made.track.spawn = track.spawn
        /\ made.track.screen_size = track.screen_size

\* the file holds the current track, which has a deactivated wall
C8_Witness ==
    /\ file # <<>>
    /\ file = save(track)
    /\ load_track(file).track = track
    /\ \E cell \in Cells(track.shape) :
          /\ At(track.walls, cell[1], cell[2]) = 1
          /\ At(track.active, cell[1], cell[2]) = 0

\* the in-grid cells of the square neighbourhood of the cursor cell
Brush(t, x, y, size) ==
    LET rc == get_grid_coord(t, x, y)
    IN  {cell \in Cells(t.shape) :
            /\ cell[1] - rc[1] < size /\ rc[1] - cell[1] < size
            /\ cell[2] - rc[2] < size /\ rc[2] - cell[2] < size}

\* C9: between a pointer-down and the next pointer-up every cell is edited at
\* most once; a click_track call with the pointer down on the canvas edits
\* exactly the brush cells not yet edited in the gesture; and a cell leaves
\* handled_points only on pointer-up.
C9_OncePerGesture ==
    /\ [](\A cell \in DOMAIN edit_count : edit_count[cell] <= 1)
    /\ [][(pressed /\ collidepoint(track, mx, my) /\ ClickTrack) =>
            \A brush \in {Brush(track, mx, my, cursor_size)} :
                \A cell \in DOMAIN edit_count :
                    edit_count'[cell] = IF cell \in brush THEN 1 ELSE edit_count[cell]]_vars
    /\ [][(\E cell \in handled_points : cell \notin handled_points') =>
            MouseButtonUp]_vars

\* one gesture in which the kind changed: the wall painted first is kept when
\* the larger brush passes over it and paints buttons around it
C9_Witness ==
    /\ pressed
    /\ cursor_size = 2
    /\ \E wall \in handled_points, button \in handled_points :
          /\ At(track.walls, wall[1], wall[2]) = 1
          /\ edit_count[wall] = 1
          /\ At(track.buttons, button[1], button[2]) = 1
          /\ button[1] - wall[1] \in -1 .. 1
          /\ button[2] - wall[2] \in -1 .. 1

====
